---- MODULE Spec2Model ----
(***************************************************************************)
(* Model of stats.py: get_stats folds the player records of every group    *)
(* of every region into three insertion-ordered mappings, reduces each     *)
(* sample list with int(sum(l) / len(l)) and export_stats writes the CSV   *)
(* files one after the other through export_to_csv.                        *)
(*                                                                         *)
(* Samples are the floating-point numbers the service reports.  A float is *)
(* modelled with Precision significant bits instead of 53; the samples of  *)
(* the model are integer-valued floats, so every float sum is an integer   *)
(* and is held as a natural number.  Only the quotient sum/len can have a  *)
(* fraction, and only its truncation int(...) is ever observed.            *)
(***************************************************************************)
EXTENDS Integers, Sequences, FiniteSets, TLC

(* ---------------------------- bounds ----------------------------------- *)
Precision == 3      \* significant bits of a float (53 in CPython)
MaxRecords == 3     \* player records returned by all groups together

Names == {"Kaydop", "Fairy"}
Teams == {"Vitality", "Renegades"}
Speeds == {4, 7}

(* The region -> group ids table, cut down to two regions. *)
RLCS_GROUPS ==
    << [region |-> "Europe",
        ids |-> <<"split-1-nak68e78tp", "split-2-b3qwqoey3n">>],
       [region |-> "India", ids |-> <<"india-eminku57a9">>] >>

RegionNames == {RLCS_GROUPS[i].region : i \in 1..Len(RLCS_GROUPS)}
GroupIds == UNION {{RLCS_GROUPS[i].ids[j] : j \in 1..Len(RLCS_GROUPS[i].ids)} :
                   i \in 1..Len(RLCS_GROUPS)}

(* ------------------------ float arithmetic ----------------------------- *)
RECURSIVE Pow2(_)
Pow2(n) == IF n = 0 THEN 1 ELSE 2 * Pow2(n - 1)

(* n/d rounded to the nearest integer, ties to the even one. *)
RoundHalfEven(n, d) ==
    LET q == n \div d
        r == n % d
    IN  IF 2 * r < d THEN q
        ELSE IF 2 * r > d THEN q + 1
        ELSE IF q % 2 = 0 THEN q ELSE q + 1

(* least e >= from with n/d < 2^(Precision+e) *)
RECURSIVE ScaleDown(_, _, _)
ScaleDown(n, d, from) ==
    IF n < d * Pow2(Precision + from) THEN from ELSE ScaleDown(n, d, from + 1)

(* least g >= from with n*2^g/d >= 2^(Precision-1); n > 0 *)
RECURSIVE ScaleUp(_, _, _)
ScaleUp(n, d, from) ==
    IF n * Pow2(from) >= d * Pow2(Precision - 1) THEN from
    ELSE ScaleUp(n, d, from + 1)

(* float + float, both integer-valued: the exact sum rounded to Precision  *)
(* significant bits.                                                       *)
FloatAdd(a, b) ==
    LET e == ScaleDown(a + b, 1, 0)
    IN  RoundHalfEven(a + b, Pow2(e)) * Pow2(e)

(* sum(l): starts from the int 0 and adds left to right. *)
RECURSIVE SumFrom(_, _)
SumFrom(acc, l) ==
    IF l = <<>> THEN acc ELSE SumFrom(FloatAdd(acc, Head(l)), Tail(l))

sum(l) == SumFrom(0, l)

(* int(s / n) for a float s >= 0 and an int n > 0: the quotient is rounded *)
(* to Precision significant bits, then truncated toward zero.              *)
IntOfQuotient(s, n) ==
    IF s = 0 THEN 0
    ELSE LET e == ScaleDown(s, n, 0)
             g == ScaleUp(s, n, 0)
         IN  IF e > 0 THEN RoundHalfEven(s, n * Pow2(e)) * Pow2(e)
             ELSE RoundHalfEven(s * Pow2(g), n) \div Pow2(g)

(* int(sum(avg_speed) / len(avg_speed)); len 0 raises ZeroDivisionError.   *)
Average(avg_speed) == IntOfQuotient(sum(avg_speed), Len(avg_speed))

(* ------------- insertion-ordered mappings (dict, defaultdict) ---------- *)
(* A mapping is the sequence of its items [k, v] in insertion order.       *)
Keys(d) == {d[i].k : i \in 1..Len(d)}

IndexOf(d, key) == CHOOSE i \in 1..Len(d) : d[i].k = key

Get(d, key) == d[IndexOf(d, key)].v

Put(d, key, val) ==
    IF key \in Keys(d)
    THEN [i \in 1..Len(d) |-> IF d[i].k = key THEN [k |-> key, v |-> val] ELSE d[i]]
    ELSE Append(d, [k |-> key, v |-> val])

(* d[key] of a defaultdict: the missing key is created with the default.   *)
GetDefault(d, key, default) == IF key \in Keys(d) THEN Get(d, key) ELSE default

(* regions[region].append(x), regions = defaultdict(list) *)
AppendTo(d, key, x) == Put(d, key, Append(GetDefault(d, key, <<>>), x))

(* The nested append with the list replaced instead of extended. *)
AppendToNested_Replaces(d, region, key, x) ==
    Put(d, region, Put(GetDefault(d, region, <<>>), key, <<x>>))

(* teams[region][key].append(x), teams = defaultdict(lambda: defaultdict(list)) *)
AppendToNested(d, region, key, x) ==
    Put(d, region, AppendTo(GetDefault(d, region, <<>>), key, x))

(* ------------------------------ state ---------------------------------- *)
VARIABLES
    api,          \* group id -> the player records the service returns for it
    groups,       \* RLCS_GROUPS in the order the loops walk it
    pc,           \* where the run is
    ri, gi, pi,   \* region, group and player the loops of get_stats are at
    group_stats,  \* the players of the group fetched last
    regions, teams, players,   \* the three mappings of get_stats
    ei,           \* region the per-region loop of export_stats is at
    files,        \* file name -> what this run has put in the file
    error         \* the exception that ended the run, "" if none

vars == <<api, groups, pc, ri, gi, pi, group_stats, regions, teams, players,
          ei, files, error>>

(* The player records a group can return.  Kaydop is met under both teams, *)
(* Fairy under one.                                                        *)
Records ==
    {r \in [name : Names, team : Teams, avg_speed : Speeds] :
        r.name = "Fairy" => r.team = "Renegades"}

(* The group ids in table order. *)
RECURSIVE Flatten(_)
Flatten(table) ==
    IF table = <<>> THEN <<>> ELSE Head(table).ids \o Flatten(Tail(table))

AllIds == Flatten(RLCS_GROUPS)

(* The responses of the service: at most MaxRecords records in all, cut    *)
(* into one list per group.                                                *)
ApiOf(flat, cut) ==
    [g \in GroupIds |->
        LET i == CHOOSE j \in 1..Len(AllIds) : AllIds[j] = g
            lo == IF i = 1 THEN 0 ELSE cut[i - 1]
            hi == IF i = Len(AllIds) THEN Len(flat) ELSE cut[i]
        IN  SubSeq(flat, lo + 1, hi)]

Cuts(n) == {c \in [1..(Len(AllIds) - 1) -> 0..n] :
               \A i \in 1..(Len(AllIds) - 2) : c[i] <= c[i + 1]}

ApiSpace(recs) ==
    UNION {{ApiOf(flat, cut) : flat \in [1..n -> recs], cut \in Cuts(n)} :
           n \in 0..MaxRecords}

(* The run with every region entered in the mappings up front. *)
InitRun_Prepopulated ==
    /\ pc = "get_group"
    /\ ri = 1 /\ gi = 1 /\ pi = 0
    /\ group_stats = <<>>
    /\ regions = [i \in 1..Len(RLCS_GROUPS) |->
                     [k |-> RLCS_GROUPS[i].region, v |-> <<>>]]
    /\ teams = [i \in 1..Len(RLCS_GROUPS) |->
                   [k |-> RLCS_GROUPS[i].region, v |-> <<>>]]
    /\ players = [i \in 1..Len(RLCS_GROUPS) |->
                     [k |-> RLCS_GROUPS[i].region, v |-> <<>>]]
    /\ ei = 0
    /\ files = <<>>
    /\ error = ""

InitRun ==
    /\ pc = "get_group"
    /\ ri = 1 /\ gi = 1 /\ pi = 0
    /\ group_stats = <<>>
    /\ regions = <<>> /\ teams = <<>> /\ players = <<>>
    /\ ei = 0
    /\ files = <<>>
    /\ error = ""

Init ==
    /\ api \in ApiSpace(Records)
    /\ groups = RLCS_GROUPS
    /\ InitRun

(* ----------------------------- get_stats ------------------------------- *)
(* Where the two outer loops go once the current group is exhausted. *)
NextGroup ==
    IF gi < Len(groups[ri].ids)
    THEN [pc |-> "get_group", ri |-> ri, gi |-> gi + 1]
    ELSE IF ri < Len(groups)
    THEN [pc |-> "get_group", ri |-> ri + 1, gi |-> 1]
    ELSE [pc |-> "reduce_regions", ri |-> ri, gi |-> gi]

(* The fetch with regions[region] read, and so created, for every group. *)
GetGroup_TouchesRegion ==
    /\ pc = "get_group"
    /\ group_stats' = api[groups[ri].ids[gi]]
    /\ regions' = Put(regions, groups[ri].region,
                      GetDefault(regions, groups[ri].region, <<>>))
    /\ IF group_stats' = <<>>
       THEN /\ pc' = NextGroup.pc /\ ri' = NextGroup.ri /\ gi' = NextGroup.gi
            /\ pi' = 0
       ELSE /\ pc' = "player" /\ pi' = 1
            /\ UNCHANGED <<ri, gi>>
    /\ UNCHANGED <<api, groups, teams, players, ei, files, error>>

(* group_stats = api.get_group(group_id); a group without players sends    *)
(* the loops straight to the next group.                                   *)
GetGroup ==
    /\ pc = "get_group"
    /\ group_stats' = api[groups[ri].ids[gi]]
    /\ IF group_stats' = <<>>
       THEN /\ pc' = NextGroup.pc /\ ri' = NextGroup.ri /\ gi' = NextGroup.gi
            /\ pi' = 0
       ELSE /\ pc' = "player" /\ pi' = 1
            /\ UNCHANGED <<ri, gi>>
    /\ UNCHANGED <<api, groups, regions, teams, players, ei, files, error>>

(* api.get_group raises (network or service failure): nothing catches it.  *)
GetGroupRaises ==
    /\ pc = "get_group"
    /\ pc' = "failed"
    /\ error' = "ApiError"
    /\ UNCHANGED <<api, groups, ri, gi, pi, group_stats, regions, teams,
                   players, ei, files>>

(* The loop body with the players keyed by team name. *)
AppendPlayer_KeyedByTeam ==
    /\ pc = "player"
    /\ LET region == groups[ri].region
           player == group_stats[pi]
           avg_speed == player.avg_speed
       IN  /\ regions' = AppendTo(regions, region, avg_speed)
           /\ teams' = AppendToNested(teams, region, player.team, avg_speed)
           /\ players' = AppendToNested(players, region, player.team, avg_speed)
    /\ IF pi < Len(group_stats)
       THEN /\ pi' = pi + 1
            /\ UNCHANGED <<pc, ri, gi>>
       ELSE /\ pc' = NextGroup.pc /\ ri' = NextGroup.ri /\ gi' = NextGroup.gi
            /\ pi' = 0
    /\ UNCHANGED <<api, groups, group_stats, ei, files, error>>

(* The body of the loop over group_stats["players"]. *)
AppendPlayer ==
    /\ pc = "player"
    /\ LET region == groups[ri].region
           player == group_stats[pi]
           avg_speed == player.avg_speed
       IN  /\ regions' = AppendTo(regions, region, avg_speed)
           /\ teams' = AppendToNested(teams, region, player.team, avg_speed)
           /\ players' = AppendToNested(players, region, player.name, avg_speed)
    /\ IF pi < Len(group_stats)
       THEN /\ pi' = pi + 1
            /\ UNCHANGED <<pc, ri, gi>>
       ELSE /\ pc' = NextGroup.pc /\ ri' = NextGroup.ri /\ gi' = NextGroup.gi
            /\ pi' = 0
    /\ UNCHANGED <<api, groups, group_stats, ei, files, error>>

(* for key, avg_speed in d.items(): d[key] = int(sum(avg_speed) /          *)
(* len(avg_speed)), from item i on.  The loop stops at the first empty     *)
(* list, where the division raises.                                        *)
RECURSIVE ReduceFrom(_, _)
ReduceFrom(d, i) ==
    IF i > Len(d) THEN [d |-> d, error |-> ""]
    ELSE IF Len(d[i].v) = 0 THEN [d |-> d, error |-> "ZeroDivisionError"]
    ELSE ReduceFrom(Put(d, d[i].k, Average(d[i].v)), i + 1)

(* for region in d: <the loop above on d[region]>, from region i on. *)
RECURSIVE ReduceNestedFrom(_, _)
ReduceNestedFrom(d, i) ==
    IF i > Len(d) THEN [d |-> d, error |-> ""]
    ELSE LET inner == ReduceFrom(d[i].v, 1)
             d2 == Put(d, d[i].k, inner.d)
         IN  IF inner.error # "" THEN [d |-> d2, error |-> inner.error]
             ELSE ReduceNestedFrom(d2, i + 1)

ReduceRegions ==
    /\ pc = "reduce_regions"
    /\ LET r == ReduceFrom(regions, 1)
       IN  /\ regions' = r.d
           /\ error' = r.error
           /\ pc' = IF r.error = "" THEN "reduce_teams" ELSE "failed"
    /\ UNCHANGED <<api, groups, ri, gi, pi, group_stats, teams, players, ei, files>>

ReduceTeams ==
    /\ pc = "reduce_teams"
    /\ LET r == ReduceNestedFrom(teams, 1)
       IN  /\ teams' = r.d
           /\ error' = r.error
           /\ pc' = IF r.error = "" THEN "reduce_players" ELSE "failed"
    /\ UNCHANGED <<api, groups, ri, gi, pi, group_stats, regions, players, ei, files>>

ReducePlayers ==
    /\ pc = "reduce_players"
    /\ LET r == ReduceNestedFrom(players, 1)
       IN  /\ players' = r.d
           /\ error' = r.error
           /\ pc' = IF r.error = "" THEN "export_regions" ELSE "failed"
    /\ UNCHANGED <<api, groups, ri, gi, pi, group_stats, regions, teams, ei, files>>

(* ---------------------------- export_to_csv ---------------------------- *)
Reverse(l) == [i \in 1..Len(l) |-> l[Len(l) + 1 - i]]

(* x put behind every row whose key is not larger: a stable insertion. *)
RECURSIVE InsertRow(_, _)
InsertRow(sortedRows, x) ==
    IF sortedRows = <<>> THEN <<x>>
    ELSE IF Head(sortedRows)["Average speed"] <= x["Average speed"]
    THEN <<Head(sortedRows)>> \o InsertRow(Tail(sortedRows), x)
    ELSE <<x>> \o sortedRows

(* The stable ascending sort list.sort performs. *)
RECURSIVE SortAscending(_)
SortAscending(l) ==
    IF l = <<>> THEN <<>>
    ELSE InsertRow(SortAscending(SubSeq(l, 1, Len(l) - 1)), l[Len(l)])

(* The descending sort as an ascending sort reversed. *)
sorted_ReversedAscending(data) == Reverse(SortAscending(data))

(* sorted(data, key=lambda stat: stat["Average speed"], reverse=True):     *)
(* CPython reverses the list, sorts it ascending and stably, and reverses  *)
(* the result.                                                             *)
sorted(data) == Reverse(SortAscending(Reverse(data)))

(* DictWriter.writerows: one line per row, the values in fieldnames order. *)
Lines(data, fieldnames) ==
    [i \in 1..Len(data) |-> [j \in 1..Len(fieldnames) |-> data[i][fieldnames[j]]]]

IOOutcomes == {"ok", "open raises", "write raises"}

(* What export_to_csv leaves in the file system.  open(..., "w") creates   *)
(* or truncates the file; a failure while writing leaves the header and    *)
(* the first n lines, or nothing, behind.                                  *)
export_to_csv(fs, output_csv, data, fieldnames, io, n) ==
    LET lines == Lines(sorted(data), fieldnames)
    IN  IF io = "ok"
        THEN (output_csv :> [complete |-> TRUE, header |-> fieldnames,
                             rows |-> lines]) @@ fs
        ELSE IF io = "write raises"
        THEN (output_csv :> [complete |-> FALSE, header |-> fieldnames,
                             rows |-> SubSeq(lines, 1, n)]) @@ fs
        ELSE fs

(* ----------------------------- export_stats ---------------------------- *)
(* The rows of a mapping, last item first. *)
RegionData_LastFirst(d, label) ==
    [i \in 1..Len(d) |->
        (label :> d[Len(d) + 1 - i].k) @@ ("Average speed" :> d[Len(d) + 1 - i].v)]

(* [{label: key, "Average speed": v} for key, v in d.items()] *)
RegionData(d, label) ==
    [i \in 1..Len(d) |-> (label :> d[i].k) @@ ("Average speed" :> d[i].v)]

(* [{label: key, "Region": region, "Average speed": v}                     *)
(*  for region in d for key, v in d[region].items()], from region i on.    *)
RECURSIVE GlobalDataFrom(_, _, _)
GlobalDataFrom(d, label, i) ==
    IF i > Len(d) THEN <<>>
    ELSE [j \in 1..Len(d[i].v) |->
             (label :> d[i].v[j].k) @@ ("Region" :> d[i].k)
                 @@ ("Average speed" :> d[i].v[j].v)]
         \o GlobalDataFrom(d, label, i + 1)

GlobalData(d, label) == GlobalDataFrom(d, label, 1)

(* The call with its exception swallowed: export_stats goes on. *)
Export_Swallows(output_csv, data, fieldnames, nextpc) ==
    \E io \in IOOutcomes : \E n \in 0..Len(data) :
        /\ (io # "write raises" => n = 0)
        /\ files' = export_to_csv(files, output_csv, data, fieldnames, io, n)
        /\ pc' = nextpc /\ error' = error

(* One call of export_to_csv from export_stats: the file system after it,  *)
(* and the run stops when it raised.                                       *)
Export(output_csv, data, fieldnames, nextpc) ==
    \E io \in IOOutcomes : \E n \in 0..Len(data) :
        /\ (io # "write raises" => n = 0)
        /\ files' = export_to_csv(files, output_csv, data, fieldnames, io, n)
        /\ IF io = "ok"
           THEN pc' = nextpc /\ error' = error
           ELSE pc' = "failed" /\ error' = "OSError"

ExportRegions ==
    /\ pc = "export_regions"
    /\ Export("regions.csv", RegionData(regions, "Region"), <<"Region", "Average speed">>,
              "export_teams")
    /\ UNCHANGED <<api, groups, ri, gi, pi, group_stats, regions, teams,
                   players, ei>>

ExportTeams ==
    /\ pc = "export_teams"
    /\ Export("teams.csv", GlobalData(teams, "Team"),
              <<"Team", "Region", "Average speed">>,
              IF Len(teams) > 0 THEN "export_teams_region" ELSE "export_players")
    /\ ei' = 1
    /\ UNCHANGED <<api, groups, ri, gi, pi, group_stats, regions, teams, players>>

ExportTeamsRegion ==
    /\ pc = "export_teams_region"
    /\ Export("teams-" \o teams[ei].k \o ".csv", RegionData(teams[ei].v, "Team"),
              <<"Team", "Average speed">>,
              IF ei < Len(teams) THEN "export_teams_region" ELSE "export_players")
    /\ ei' = ei + 1
    /\ UNCHANGED <<api, groups, ri, gi, pi, group_stats, regions, teams, players>>

(* players.csv written last, without the loop over the regions. *)
ExportPlayers_NoPerRegion ==
    /\ pc = "export_players"
    /\ Export("players.csv", GlobalData(players, "Player"),
              <<"Player", "Region", "Average speed">>, "done")
    /\ ei' = 1
    /\ UNCHANGED <<api, groups, ri, gi, pi, group_stats, regions, teams, players>>

ExportPlayers ==
    /\ pc = "export_players"
    /\ Export("players.csv", GlobalData(players, "Player"),
              <<"Player", "Region", "Average speed">>,
              IF Len(players) > 0 THEN "export_players_region" ELSE "done")
    /\ ei' = 1
    /\ UNCHANGED <<api, groups, ri, gi, pi, group_stats, regions, teams, players>>

ExportPlayersRegion ==
    /\ pc = "export_players_region"
    /\ Export("players-" \o players[ei].k \o ".csv",
              RegionData(players[ei].v, "Player"),
              <<"Player", "Average speed">>,
              IF ei < Len(players) THEN "export_players_region" ELSE "done")
    /\ ei' = ei + 1
    /\ UNCHANGED <<api, groups, ri, gi, pi, group_stats, regions, teams, players>>

Next ==
    \/ GetGroup
    \/ GetGroupRaises
    \/ AppendPlayer
    \/ ReduceRegions
    \/ ReduceTeams
    \/ ReducePlayers
    \/ ExportRegions
    \/ ExportTeams
    \/ ExportTeamsRegion
    \/ ExportPlayers
    \/ ExportPlayersRegion

Spec == Init /\ [][Next]_vars

(* The same run on a table listing the regions, and the groups of each     *)
(* region, in any other order.                                             *)
Orderings(l) ==
    {p \in [1..Len(l) -> {l[i] : i \in 1..Len(l)}] :
        \A i, j \in 1..Len(l) : i # j => p[i] # p[j]}

IdOrders ==
    {o \in [1..Len(RLCS_GROUPS) ->
               UNION {Orderings(RLCS_GROUPS[i].ids) : i \in 1..Len(RLCS_GROUPS)}] :
        \A i \in 1..Len(RLCS_GROUPS) : o[i] \in Orderings(RLCS_GROUPS[i].ids)}

TableOrders ==
    UNION {Orderings([i \in 1..Len(RLCS_GROUPS) |->
                         [region |-> RLCS_GROUPS[i].region, ids |-> o[i]]]) :
           o \in IdOrders}

InitPerm ==
    /\ api \in ApiSpace(Records)
    /\ groups \in TableOrders
    /\ InitRun

SpecPerm == InitPerm /\ [][Next]_vars

(* ------------------- what the service returned ------------------------- *)
RECURSIVE RecordsOf(_, _)
RecordsOf(ids, a) ==
    IF ids = <<>> THEN <<>> ELSE a[Head(ids)] \o RecordsOf(Tail(ids), a)

(* The records fetched for a region, in the order table lists its groups. *)
RegionRecords(table, region) ==
    LET i == CHOOSE j \in 1..Len(table) : table[j].region = region
    IN  RecordsOf(table[i].ids, api)

SpeedsOf(recs) == [i \in 1..Len(recs) |-> recs[i].avg_speed]

TeamSamples(recs, team) ==
    LET Test(r) == r.team = team IN SpeedsOf(SelectSeq(recs, Test))

PlayerSamples(recs, name) ==
    LET Test(r) == r.name = name IN SpeedsOf(SelectSeq(recs, Test))

RECURSIVE ExactSum(_)
ExactSum(l) == IF l = <<>> THEN 0 ELSE Head(l) + ExactSum(Tail(l))

(* sum of the samples divided by their count, rounded toward zero *)
TruncatedMean(l) == ExactSum(l) \div Len(l)

Reduced == pc \in {"export_regions", "export_teams", "export_teams_region",
                   "export_players", "export_players_region", "done"}

Accumulating == pc \in {"get_group", "player", "reduce_regions"}

EmptyRegions == {r \in RegionNames : RegionRecords(groups, r) = <<>>}

(* The values get_stats returns are f of the samples of each key, the      *)
(* samples of a region taken in the order table lists its groups.          *)
AveragesAre(f(_), table) ==
    /\ Keys(regions) = RegionNames \ EmptyRegions
    /\ Keys(teams) = Keys(regions)
    /\ Keys(players) = Keys(regions)
    /\ \A r \in Keys(regions) :
        LET recs == RegionRecords(table, r)
        IN  /\ Get(regions, r) = f(SpeedsOf(recs))
            /\ Keys(Get(teams, r)) = {recs[i].team : i \in 1..Len(recs)}
            /\ \A t \in Keys(Get(teams, r)) :
                   Get(Get(teams, r), t) = f(TeamSamples(recs, t))
            /\ Keys(Get(players, r)) = {recs[i].name : i \in 1..Len(recs)}
            /\ \A n \in Keys(Get(players, r)) :
                   Get(Get(players, r), n) = f(PlayerSamples(recs, n))

(* C1: every value of the three mappings get_stats returns is the sum of   *)
(* exactly the samples of its key divided by their count, rounded toward   *)
(* zero.  The float sum and the float quotient round: samples 4 and 7 give *)
(* 6 with three significant bits, as 1499.9999999999998 and 2500.0 give    *)
(* 2000 with fifty-three.                                                  *)
C1_TruncatedMean == Reduced => AveragesAre(TruncatedMean, groups)

(* C2: whatever the order in which the regions and the groups of a region  *)
(* are fetched, get_stats returns the averages it returns when they are    *)
(* fetched in the order of RLCS_GROUPS.                                    *)
C2_OrderIndependent == Reduced => AveragesAre(Average, RLCS_GROUPS)

(* ------------------------------ files ---------------------------------- *)
Written(name) == name \in DOMAIN files

(* The values a file holds in the column named col. *)
Column(name, col) ==
    {files[name].rows[i][j] :
        i \in 1..Len(files[name].rows),
        j \in {c \in 1..Len(files[name].header) : files[name].header[c] = col}}

(* No file is named after region r and no line of a file is about it. *)
Omitted(r) ==
    /\ ~Written("teams-" \o r \o ".csv")
    /\ ~Written("players-" \o r \o ".csv")
    /\ \A f \in DOMAIN files : r \notin Column(f, "Region")

(* Region r is in the three global files and has its two files, in full. *)
Exported(r) ==
    /\ \A f \in {"regions.csv", "teams.csv", "players.csv"} :
          Written(f) /\ files[f].complete /\ r \in Column(f, "Region")
    /\ \A f \in {"teams-" \o r \o ".csv", "players-" \o r \o ".csv"} :
          Written(f) /\ files[f].complete /\ files[f].rows # <<>>

(* C4: a region all of whose groups return no player never makes the run  *)
(* fail in the reducer; a run that goes through leaves the region out of   *)
(* every file and exports every other region.                              *)
C4_EmptyRegionNoCrash ==
    EmptyRegions # {} =>
        /\ error # "ZeroDivisionError"
        /\ pc = "done" =>
              /\ \A r \in EmptyRegions : Omitted(r)
              /\ \A r \in RegionNames \ EmptyRegions : Exported(r)

C4_Witness ==
    /\ pc = "done"
    /\ EmptyRegions # {}
    /\ EmptyRegions # RegionNames

Total(d) == ExactSum([i \in 1..Len(d) |-> Len(d[i].v)])

(* C5, as stated: once the reducer has run on the samples of a run where a *)
(* region has no player and another has some, the run has ended with a     *)
(* division by zero.                                                       *)
C5_EmptyRegionDividesByZero ==
    (/\ EmptyRegions # {} /\ EmptyRegions # RegionNames
     /\ ~Accumulating /\ error # "ApiError")
        => error = "ZeroDivisionError"

(* C5, amended: no key is created for a region without players, so every   *)
(* list the reducer averages has a sample and no division by zero occurs.  *)
C5_NoEmptySampleList ==
    /\ error # "ZeroDivisionError"
    /\ pc = "reduce_regions" =>
          \A i \in 1..Len(regions) :
              regions[i].k \notin EmptyRegions /\ Len(regions[i].v) > 0
    /\ pc = "reduce_teams" =>
          \A i \in 1..Len(teams) :
              /\ teams[i].k \notin EmptyRegions
              /\ \A j \in 1..Len(teams[i].v) : Len(teams[i].v[j].v) > 0
    /\ pc = "reduce_players" =>
          \A i \in 1..Len(players) :
              /\ players[i].k \notin EmptyRegions
              /\ \A j \in 1..Len(players[i].v) : Len(players[i].v[j].v) > 0

C5_Witness ==
    /\ pc = "reduce_teams"
    /\ EmptyRegions # {}
    /\ regions # <<>>

Samples(l) == l

(* C8: a region, a (region, team) and a (region, player name) each have    *)
(* one entry, made of all the samples fetched for the region under that    *)
(* key, whatever the group or the team they came with, and of no sample of *)
(* another region.                                                         *)
C8_KeyedByRegion ==
    /\ pc = "reduce_regions" => AveragesAre(Samples, groups)
    /\ Reduced => AveragesAre(Average, groups)

(* A player met in both groups of a region, under two teams, and in the    *)
(* other region too.                                                       *)
C8_Witness ==
    /\ pc = "done"
    /\ \E n \in Names : \E a, b \in 1..Len(groups) :
          /\ a # b
          /\ Len(groups[a].ids) > 1
          /\ \E x \in 1..Len(api[groups[a].ids[1]]) :
             \E y \in 1..Len(api[groups[a].ids[2]]) :
                /\ api[groups[a].ids[1]][x].name = n
                /\ api[groups[a].ids[2]][y].name = n
                /\ api[groups[a].ids[1]][x].team # api[groups[a].ids[2]][y].team
          /\ PlayerSamples(RegionRecords(groups, groups[b].region), n) # <<>>
          /\ Keys(Get(players, groups[a].region)) = {n}

(* C9: while get_stats accumulates, the three mappings have the same       *)
(* regions, no list is empty, and a region has as many samples as its      *)
(* teams have together and as its players have together.                   *)
C9_AccumulationInvariant ==
    Accumulating =>
        /\ Keys(teams) = Keys(regions)
        /\ Keys(players) = Keys(regions)
        /\ \A i \in 1..Len(regions) : Len(regions[i].v) > 0
        /\ \A i \in 1..Len(teams) : \A j \in 1..Len(teams[i].v) :
              Len(teams[i].v[j].v) > 0
        /\ \A i \in 1..Len(players) : \A j \in 1..Len(players[i].v) :
              Len(players[i].v[j].v) > 0
        /\ \A r \in Keys(regions) :
              /\ Len(Get(regions, r)) = Total(Get(teams, r))
              /\ Len(Get(regions, r)) = Total(Get(players, r))

C9_Witness ==
    /\ pc = "player"
    /\ pi > 1
    /\ \E i \in 1..Len(teams) : Len(teams[i].v) > 1
    /\ \E i \in 1..Len(regions) : Len(regions[i].v) > 1

(* The calls export_stats makes once the mappings are reduced: the file    *)
(* and the lines of its data, in the order the rows were built.            *)
Calls ==
    {[name |-> "regions.csv",
      lines |-> Lines(RegionData(regions, "Region"), <<"Region", "Average speed">>)],
     [name |-> "teams.csv",
      lines |-> Lines(GlobalData(teams, "Team"),
                      <<"Team", "Region", "Average speed">>)],
     [name |-> "players.csv",
      lines |-> Lines(GlobalData(players, "Player"),
                      <<"Player", "Region", "Average speed">>)]}
    \cup {[name |-> "teams-" \o teams[i].k \o ".csv",
           lines |-> Lines(RegionData(teams[i].v, "Team"),
                           <<"Team", "Average speed">>)] : i \in 1..Len(teams)}
    \cup {[name |-> "players-" \o players[i].k \o ".csv",
           lines |-> Lines(RegionData(players[i].v, "Player"),
                           <<"Player", "Average speed">>)] : i \in 1..Len(players)}

Speed(line) == line[Len(line)]

Position(l, x) == CHOOSE i \in 1..Len(l) : l[i] = x

(* out is inp reordered by non-increasing speed, equal speeds in the order *)
(* of inp.                                                                 *)
SortedStably(out, inp) ==
    /\ Len(out) = Len(inp)
    /\ {out[i] : i \in 1..Len(out)} = {inp[i] : i \in 1..Len(inp)}
    /\ Cardinality({inp[i] : i \in 1..Len(inp)}) = Len(inp)
    /\ \A i, j \in 1..Len(out) :
          i < j => /\ Speed(out[i]) >= Speed(out[j])
                   /\ Speed(out[i]) = Speed(out[j])
                         => Position(inp, out[i]) < Position(inp, out[j])

(* C3: the rows of every file export_to_csv has written are its input rows *)
(* by non-increasing "Average speed", rows of equal speed in input order.  *)
C3_SortedDescendingStable ==
    Reduced =>
        \A c \in Calls :
            (Written(c.name) /\ files[c.name].complete)
                => SortedStably(files[c.name].rows, c.lines)

(* A file whose rows had to be moved and where two rows tie. *)
C3_Witness ==
    /\ Reduced
    /\ \E c \in Calls :
          /\ Written(c.name) /\ files[c.name].complete
          /\ files[c.name].rows # c.lines
          /\ \E i, j \in 1..Len(c.lines) : i < j /\ Speed(c.lines[i]) = Speed(c.lines[j])

(* C6, as stated: a run that has failed has touched no file. *)
C6_FailsAtomically == pc = "failed" => DOMAIN files = {}

(* C6, amended: a run that fails in get_stats has touched no file; a run   *)
(* that fails in export_stats keeps the files of the earlier calls, all    *)
(* complete, and only the file of the failing call can be incomplete.      *)
C6_FailureLeavesEarlierFiles ==
    /\ [](/\ error \in {"ApiError", "ZeroDivisionError"} => DOMAIN files = {}
          /\ \A f \in DOMAIN files :
                ~files[f].complete =>
                    /\ pc = "failed" /\ error = "OSError"
                    /\ \A g \in DOMAIN files \ {f} : files[g].complete)
    /\ [][\A f \in DOMAIN files :
             files[f].complete => (f \in DOMAIN files' /\ files'[f] = files[f])]_vars

C6_Witness ==
    /\ pc = "failed" /\ error = "OSError"
    /\ \E f, g \in DOMAIN files : files[f].complete /\ ~files[g].complete

PerRegionFiles(rs) ==
    {"teams-" \o r \o ".csv" : r \in rs} \cup {"players-" \o r \o ".csv" : r \in rs}

(* C7: a run that went through has written regions.csv, teams.csv,         *)
(* players.csv and the two files of every region of the mappings, and no   *)
(* other file; the regions of regions.csv are the regions with files.      *)
C7_FilesWritten ==
    pc = "done" =>
        /\ DOMAIN files = {"regions.csv", "teams.csv", "players.csv"}
                             \cup PerRegionFiles(Keys(regions))
        /\ Cardinality(DOMAIN files) = 3 + 2 * Cardinality(Keys(regions))
        /\ \A f \in DOMAIN files : files[f].complete
        /\ \A r \in RegionNames :
              /\ r \in Column("regions.csv", "Region")
                    <=> Written("teams-" \o r \o ".csv")
              /\ r \in Column("regions.csv", "Region")
                    <=> Written("players-" \o r \o ".csv")

C7_Witness == pc = "done" /\ Cardinality(Keys(regions)) = 2

(* The lines of a global file about region r, the Region column dropped. *)
LinesOfRegion(name, r) ==
    LET Test(line) == line[2] = r
        kept == SelectSeq(files[name].rows, Test)
    IN  [i \in 1..Len(kept) |-> <<kept[i][1], kept[i][3]>>]

(* C10: the rows of teams-<region>.csv are the rows of teams.csv of that   *)
(* region, in the same order; likewise players-<region>.csv and            *)
(* players.csv.                                                            *)
C10_PerRegionMatchesGlobal ==
    \A r \in RegionNames :
        /\ (Written("teams-" \o r \o ".csv") /\ files["teams-" \o r \o ".csv"].complete)
              => files["teams-" \o r \o ".csv"].rows = LinesOfRegion("teams.csv", r)
        /\ (Written("players-" \o r \o ".csv") /\ files["players-" \o r \o ".csv"].complete)
              => files["players-" \o r \o ".csv"].rows = LinesOfRegion("players.csv", r)

(* A region whose file has two teams, or two players, of equal speed. *)
C10_Witness ==
    /\ pc = "done"
    /\ \E r \in RegionNames : \E f \in PerRegionFiles({r}) :
          /\ Written(f)
          /\ \E i, j \in 1..Len(files[f].rows) :
                i < j /\ Speed(files[f].rows[i]) = Speed(files[f].rows[j])

====
